---- MODULE Spec2Model ----
(***************************************************************************)
(* crypto-predictor: the consensus decision (decide_pair), the daily risk  *)
(* gate (check_trading_limits / update_trading_state_after_trade), the     *)
(* paper-trade journals with their closer, log rotation, and the run cycle *)
(* (run_once) that ties them together.                                     *)
(*                                                                         *)
(* Units.  Scores and confidences are integers in tenths (10 = 1.0), R     *)
(* multiples are integers in tenths of R, prices are integers.  The fused  *)
(* score S is an exact fraction <<numerator, denominator>> of tenths.      *)
(***************************************************************************)
EXTENDS Integers, Sequences, FiniteSets, TLC

VARIABLES
    dPair,        \* decide_pair: the requested pair
    dVotes,       \* decide_pair: the vote list handed in (list of vote dicts)
    dWeights,     \* decide_pair: weights (agent name -> weight)
    dEnv,         \* decide_pair: CRITICAL_AGENTS, TECH_DRIVER_*, TECH_VETO_*
    dOut,         \* decide_pair: the returned (S, decision, reason, breakdown)
    dCalls,       \* decide_pair: the direct calls made so far (arguments, environment, result)
    btCandles,    \* backtest: the candle array handed to simulate_backtest
    btParams,     \* backtest: score_min, rr, sl_pct
    btRuns,       \* backtest: what each simulate_backtest call so far returned
    cvIn,         \* collect_votes: per pair, what the fetch and the agent's run yield
    cvOut,        \* collect_votes: the returned votes, once called
    olIn,         \* compute_order_levels: side, price, rr, sl_distance_pct
    olOut,        \* compute_order_levels: the returned levels, once called
    pnlIn,        \* record_closed_paper_trade: the trade and the exit price handed in
    day,          \* the current UTC date (a day number)
    tradingState, \* data/trading_daily_state.json: NoFile or {date, n_trades, risk_used_r}
    lim,          \* limits: the limit values handed to check_trading_limits
    lastCheck,    \* limits: the last check_trading_limits call and what it returned
    updatesToday, \* limits: update_trading_state_after_trade calls on the current date
    blockedDay,   \* limits: the date of the last check refused for max_trades_per_day
    cfg,          \* run cycle: the process environment (ENVIRONMENT, DRY_RUN, limits, LOG_ROTATE_*)
    phase,        \* run cycle: "due" (a run is due) or "ran" (waiting for the next interval)
    now,          \* run cycle: index of the current candle interval
    klines,       \* the exchange's candles per pair, oldest first
    paperOpen,    \* data/paper_trades.jsonl: the OPEN journal
    paperClosed,  \* data/paper_trades_closed.jsonl: the CLOSED journal
    closedRotated,\* data/paper_trades_closed.jsonl.1, .2, ...: rotated generations
    closedEver,   \* history: every CLOSED record written so far, in order
    orders,       \* market orders accepted by the testnet exchange
    lastRun       \* run cycle: what the last run_once did for each signal

dvars == <<dPair, dVotes, dWeights, dEnv, dOut, dCalls>>

bvars == <<btCandles, btParams, btRuns>>

fvars == <<cvIn, cvOut, olIn, olOut, pnlIn>>

lvars == <<lim, lastCheck, updatesToday, blockedDay>>

rvars == <<cfg, phase, now, klines, paperOpen, paperClosed, closedRotated, closedEver, orders, lastRun>>

vars == <<dPair, dVotes, dWeights, dEnv, dOut, dCalls, btCandles, btParams, btRuns,
          cvIn, cvOut, olIn, olOut, pnlIn, day, tradingState,
          lim, lastCheck, updatesToday, blockedDay,
          cfg, phase, now, klines, paperOpen, paperClosed, closedRotated, closedEver,
          orders, lastRun>>

---------------------------------------------------------------------------
(* Numbers *)

\* 1.0 in tenths: the clamp bound of S and the upper end of score/confidence.
One == 10

\* os.getenv defaults of decide_pair and FINAL_SCORE_MIN.
TechDriverLong == 7
TechDriverShort == -6
TechVetoScoreMin == 5
TechVetoConfMin == 5
FinalScoreMin == 6

Abs(x) == IF x < 0 THEN -x ELSE x

RECURSIVE Gcd(_, _)
Gcd(a, b) == IF b = 0 THEN a ELSE Gcd(b, a % b)

\* The fraction n/d (d > 0) in lowest terms.
Frac(n, d) == LET g == Gcd(Abs(n), d) IN <<n \div g, d \div g>>

---------------------------------------------------------------------------
(* decide_pair *)

None == "None"

\* _normalize_votes on a list of vote dicts: a dict keyed by agent name, a later
\* item of the same name replacing the earlier value in place (Python dicts keep
\* the position of the first insertion).  The pair of an item is not read.
RECURSIVE NormalizeInto(_, _)
NormalizeInto(raw, acc) ==
    IF raw = <<>> THEN acc
    ELSE LET item == Head(raw)
             e == [name |-> item.agent, score |-> item.score,
                   conf |-> item.confidence, fresh |-> item.inputs_fresh]
         IN  IF item.agent = "" THEN NormalizeInto(Tail(raw), acc)
             ELSE IF \E i \in DOMAIN acc : acc[i].name = e.name
                  THEN NormalizeInto(Tail(raw),
                         [i \in DOMAIN acc |-> IF acc[i].name = e.name THEN e ELSE acc[i]])
                  ELSE NormalizeInto(Tail(raw), Append(acc, e))

NormalizeVotes(raw_votes) == NormalizeInto(raw_votes, <<>>)

\* CRITICAL_AGENTS parsed; an empty set falls back to {"technical"}.
CriticalAgents(e) == IF e.critical = {} THEN {"technical"} ELSE e.critical

\* weights.get(name, 0.0)
WeightOf(weights, name) == IF name \in DOMAIN weights THEN weights[name] ELSE 0

\* `not fresh`: the test of the critical gate, of the fusion loop, of the
\* technical guard and of the veto loop.
IsStale_Ignored(v) == FALSE

IsStale(v) == ~v.fresh

\* The fusion loop keeps a vote iff it is fresh and its confidence is > 0.
InFusion_StaleCounted(v) == v.conf > 0

InFusion(v) == ~IsStale(v) /\ v.conf > 0

EffW_NoConf(v, weights) == WeightOf(weights, v.name)

EffW(v, weights) == WeightOf(weights, v.name) * v.conf

RECURSIVE WeightedSum(_, _)
WeightedSum(d, weights) ==
    IF d = <<>> THEN 0
    ELSE (IF InFusion(Head(d)) THEN Head(d).score * EffW(Head(d), weights) ELSE 0)
         + WeightedSum(Tail(d), weights)

RECURSIVE TotalWeight(_, _)
TotalWeight(d, weights) ==
    IF d = <<>> THEN 0
    ELSE (IF InFusion(Head(d)) THEN EffW(Head(d), weights) ELSE 0)
         + TotalWeight(Tail(d), weights)

\* S = 0 if total_weight <= 0, else clamp(weighted_sum / total_weight, -1, 1).
FusedScore_NoClamp(d, weights) ==
    LET ws == WeightedSum(d, weights)
        tw == TotalWeight(d, weights)
    IN  IF tw <= 0 THEN <<0, 1>> ELSE Frac(ws, tw)

FusedScore(d, weights) ==
    LET ws == WeightedSum(d, weights)
        tw == TotalWeight(d, weights)
    IN  IF tw <= 0 THEN <<0, 1>>
        ELSE IF ws >= One * tw THEN <<One, 1>>
        ELSE IF ws <= (-One) * tw THEN <<-One, 1>>
        ELSE Frac(ws, tw)

Breakdown(d) == [i \in DOMAIN d |-> <<d[i].name, d[i].score, d[i].conf>>]

\* Names of the stale critical agents, as sorted(set(critical_stale)).
CriticalStale_None(d, e) == {}

CriticalStale(d, e) ==
    {d[i].name : i \in {j \in DOMAIN d : IsStale(d[j]) /\ d[j].name \in CriticalAgents(e)}}

HasAgent(d, name) == \E i \in DOMAIN d : d[i].name = name

EntryOf(d, name) == d[CHOOSE i \in DOMAIN d : d[i].name = name]

\* The technical driver's proposal.
Proposed_SignOnly(tech_score, e) ==
    IF tech_score > 0 THEN "LONG" ELSE IF tech_score < 0 THEN "SHORT" ELSE None

Proposed_Swapped(tech_score, e) ==
    IF tech_score >= e.tech_long THEN "SHORT"
    ELSE IF tech_score <= e.tech_short THEN "LONG"
    ELSE None

Proposed(tech_score, e) ==
    IF tech_score >= e.tech_long THEN "LONG"
    ELSE IF tech_score <= e.tech_short THEN "SHORT"
    ELSE None

\* The veto loop: every other fresh agent at or above both minimums whose score
\* opposes the proposal.
VetoAgents_Strict(d, proposed, e) ==
    {d[i].name : i \in {j \in DOMAIN d :
        /\ d[j].name # "technical"
        /\ ~IsStale(d[j])
        /\ d[j].conf > e.veto_conf_min
        /\ Abs(d[j].score) > e.veto_score_min
        /\ \/ proposed = "LONG" /\ d[j].score < 0
           \/ proposed = "SHORT" /\ d[j].score > 0}}

VetoAgents(d, proposed, e) ==
    {d[i].name : i \in {j \in DOMAIN d :
        /\ d[j].name # "technical"
        /\ ~IsStale(d[j])
        /\ ~(d[j].conf < e.veto_conf_min)
        /\ ~(Abs(d[j].score) < e.veto_score_min)
        /\ \/ proposed = "LONG" /\ d[j].score < 0
           \/ proposed = "SHORT" /\ d[j].score > 0}}

Result(S, decision, kind, names, breakdown) ==
    [S |-> S, decision |-> decision, reason |-> <<kind, names>>, breakdown |-> breakdown]

\* decide_pair on an already normalised vote dict.
DecideDict(d, weights, e) ==
    IF d = <<>> THEN Result(<<0, 1>>, "HOLD", "no votes", {}, <<>>)
    ELSE LET S == FusedScore(d, weights)
             bd == Breakdown(d)
             cs == CriticalStale(d, e)
         IN  IF cs # {} THEN Result(S, "HOLD", "critical stale", cs, bd)
             ELSE IF ~HasAgent(d, "technical")
                  THEN Result(S, "HOLD", "no technical agent", {}, bd)
             ELSE LET tech == EntryOf(d, "technical") IN
                  IF IsStale(tech)
                  THEN Result(S, "HOLD", "critical stale", {"technical"}, bd)
                  ELSE LET proposed == Proposed(tech.score, e) IN
                       IF proposed = None
                       THEN Result(S, "HOLD", "no technical edge", {}, bd)
                       ELSE LET veto == VetoAgents(d, proposed, e) IN
                            IF veto # {}
                            THEN Result(S, "HOLD", "veto by", veto, bd)
                            ELSE Result(S, proposed, "technical driver, no veto", {}, bd)

\* decide_pair(pair, votes, weights, thresholds): pair and thresholds are not read.
DecidePair_Cooldown(pair, votes, weights, thresholds, e) ==
    IF dCalls # <<>> /\ dCalls[Len(dCalls)].out.decision # "HOLD"
    THEN Result(<<0, 1>>, "HOLD", "cooldown", {}, <<>>)
    ELSE DecideDict(NormalizeVotes(votes), weights, e)

DecidePair(pair, votes, weights, thresholds, e) ==
    DecideDict(NormalizeVotes(votes), weights, e)

---------------------------------------------------------------------------
(* Daily risk limits: src/trade/limits.py *)

NoFile == [exists |-> FALSE, kind |-> "none", date |-> -1, n_trades |-> 0, risk_used_r |-> 0]

StateFile(date, n, r) == [exists |-> TRUE, kind |-> "state", date |-> date, n_trades |-> n, risk_used_r |-> r]

\* A file that json.load rejects.
InvalidJson == [exists |-> TRUE, kind |-> "invalid json", date |-> -1, n_trades |-> 0, risk_used_r |-> 0]

\* A file holding JSON that is no object, such as [] or 3.
NotAnObject == [exists |-> TRUE, kind |-> "not an object", date |-> -1, n_trades |-> 0, risk_used_r |-> 0]

\* A file holding an object with a "date" and an "n_trades" that is no number.
BadFields(date) == [exists |-> TRUE, kind |-> "bad fields", date |-> date, n_trades |-> 0, risk_used_r |-> 0]

\* Stands for the exception that leaves _load_trading_state.
RaisedState == [exists |-> FALSE, kind |-> "raised", date |-> -1, n_trades |-> 0, risk_used_r |-> 0]

\* _load_trading_state: a missing file or a file of another date gives today's
\* empty state.
LoadTradingState_NoReset(file, today) ==
    IF ~file.exists THEN StateFile(today, 0, 0) ELSE file

LoadTradingState(file, today) ==
    IF ~file.exists THEN StateFile(today, 0, 0)
    ELSE IF file.kind = "invalid json" THEN StateFile(today, 0, 0)
    ELSE IF file.kind = "not an object" THEN RaisedState
    ELSE IF file.date # today THEN StateFile(today, 0, 0)
    ELSE file

CheckTradingLimits_CountsOpened(file, today, max_trades_per_day, max_daily_risk_r, max_risk_per_trade_r, assumed_r_per_trade) ==
    LET state == LoadTradingState(file, today)
    IN  IF max_trades_per_day > 0 /\ state.n_trades > max_trades_per_day
        THEN [ok |-> FALSE, reason |-> "max_trades_per_day reached"]
        ELSE IF max_daily_risk_r > 0 /\ state.risk_used_r > max_daily_risk_r
        THEN [ok |-> FALSE, reason |-> "max_daily_risk_r reached"]
        ELSE [ok |-> TRUE, reason |-> "limits_ok"]

\* check_trading_limits: (ok, reason).  A limit of 0 is disabled.  The reason
\* "raised" stands for an exception that leaves the call.
CheckTradingLimits(file, today, max_trades_per_day, max_daily_risk_r, max_risk_per_trade_r, assumed_r_per_trade) ==
    LET state == LoadTradingState(file, today)
        projected_trades == state.n_trades + 1
        projected_risk == state.risk_used_r + assumed_r_per_trade
    IN  IF state.kind = "raised" THEN [ok |-> FALSE, reason |-> "raised"]
        ELSE IF max_risk_per_trade_r > 0 /\ assumed_r_per_trade > max_risk_per_trade_r
        THEN [ok |-> FALSE, reason |-> "risk_per_trade_r > max_risk_per_trade_r"]
        ELSE IF state.kind = "bad fields" THEN [ok |-> FALSE, reason |-> "raised"]
        ELSE IF max_trades_per_day > 0 /\ projected_trades > max_trades_per_day
        THEN [ok |-> FALSE, reason |-> "max_trades_per_day reached"]
        ELSE IF max_daily_risk_r > 0 /\ projected_risk > max_daily_risk_r
        THEN [ok |-> FALSE, reason |-> "max_daily_risk_r reached"]
        ELSE [ok |-> TRUE, reason |-> "limits_ok"]

\* update_trading_state_after_trade: load, increment, save; the file stays as
\* it is when the load or the increment raises.
UpdateTradingStateAfterTrade(file, today, assumed_r_per_trade) ==
    LET state == LoadTradingState(file, today)
    IN  IF state.kind \in {"raised", "bad fields"} THEN file
        ELSE StateFile(state.date, state.n_trades + 1, state.risk_used_r + assumed_r_per_trade)

---------------------------------------------------------------------------
(* Order levels: src/trade/risk.py.  A price is an integer number of 10^-6, the
   sixth decimal that round(x, 6) keeps; rr is given in tenths, the stop
   distance in thousandths of the price. *)

\* round(price * k / m, 6) for a price counted in 10^-6: the nearest integer, a
\* tie going to the even one.  The product is taken on the two parts of the
\* price so that it stays within 32 bits.
RoundMul(price, k, m) ==
    LET whole == (price \div m) * k
        n == (price % m) * k
        q == whole + n \div m
        r == n % m
    IN  IF 2 * r < m THEN q
        ELSE IF 2 * r > m THEN q + 1
        ELSE IF q % 2 = 0 THEN q ELSE q + 1

ComputeOrderLevels_Truncated(side, price, rr, sl_distance) ==
    LET stop == IF side = "LONG" THEN price - (price * sl_distance) \div 1000
                ELSE price + (price * sl_distance) \div 1000
        tp == IF side = "LONG" THEN price + ((price - stop) * rr) \div 10
              ELSE price - ((stop - price) * rr) \div 10
    IN  [side |-> side, entry |-> price, stop_loss |-> stop, take_profit |-> tp]

\* stop and tp are computed unrounded, tp from the unrounded stop; the three
\* levels are rounded on return.
ComputeOrderLevels(side, price, rr, sl_distance) ==
    LET stop == IF side = "LONG" THEN RoundMul(price, 1000 - sl_distance, 1000)
                ELSE RoundMul(price, 1000 + sl_distance, 1000)
        tp == IF side = "LONG" THEN RoundMul(price, 10000 + sl_distance * rr, 10000)
              ELSE RoundMul(price, 10000 - sl_distance * rr, 10000)
    IN  [side |-> side, entry |-> price, stop_loss |-> stop, take_profit |-> tp]

---------------------------------------------------------------------------
(* Paper-trade journals: trade/paper.py *)

\* open_paper_trade: append an OPEN record, stamped with the wall clock.
OpenPaperTrade(journal, t, pair, side, entry, stop_loss, take_profit, size) ==
    Append(journal,
           [t |-> t, pair |-> pair, side |-> side, entry |-> entry,
            stop_loss |-> stop_loss, take_profit |-> take_profit,
            size |-> size, status |-> "OPEN"])

\* _compute_pnl_r, an exact fraction in tenths of R; 0 when the risk distance
\* is <= 0.
ComputePnlR_Unguarded(side, entry, stop_loss, exit_price) ==
    IF side = "LONG"
    THEN IF entry - stop_loss < 0 THEN Frac((entry - exit_price) * One, stop_loss - entry)
         ELSE IF entry = stop_loss THEN <<0, 0>>
         ELSE Frac((exit_price - entry) * One, entry - stop_loss)
    ELSE IF side = "SHORT"
    THEN IF stop_loss - entry < 0 THEN Frac((exit_price - entry) * One, entry - stop_loss)
         ELSE IF entry = stop_loss THEN <<0, 0>>
         ELSE Frac((entry - exit_price) * One, stop_loss - entry)
    ELSE <<0, 1>>

ComputePnlR_Truncated(side, entry, stop_loss, exit_price) ==
    IF side = "LONG"
    THEN IF entry - stop_loss <= 0 THEN <<0, 1>>
         ELSE <<((exit_price - entry) * One) \div (entry - stop_loss), 1>>
    ELSE IF side = "SHORT"
    THEN IF stop_loss - entry <= 0 THEN <<0, 1>>
         ELSE <<((entry - exit_price) * One) \div (stop_loss - entry), 1>>
    ELSE <<0, 1>>

ComputePnlR(side, entry, stop_loss, exit_price) ==
    IF side = "LONG"
    THEN IF entry - stop_loss <= 0 THEN <<0, 1>>
         ELSE Frac((exit_price - entry) * One, entry - stop_loss)
    ELSE IF side = "SHORT"
    THEN IF stop_loss - entry <= 0 THEN <<0, 1>>
         ELSE Frac((entry - exit_price) * One, stop_loss - entry)
    ELSE <<0, 1>>

ClosedRecord(pair, side, entry, stop_loss, take_profit, size, exit_price, outcome, opened_at, exit_time) ==
    [pair |-> pair, side |-> side, entry |-> entry, stop_loss |-> stop_loss,
     take_profit |-> take_profit, size |-> size, open_time |-> opened_at,
     exit_time |-> exit_time, exit |-> exit_price, outcome |-> outcome,
     pnl_r |-> ComputePnlR(side, entry, stop_loss, exit_price), status |-> "CLOSED"]

\* record_closed_paper_trade: append the CLOSED record; the journal is not read.
RecordClosedPaperTrade(journal, rec) == Append(journal, rec)

---------------------------------------------------------------------------
(* The paper-trade closer: trade/close_paper_trades.py *)

\* Seconds per candle interval, and the offset of a run inside its interval, in
\* a unit where the interval is 2 and a run starts 1 after the candle opened.
IntervalSec == 2

OpenTimeOf(k) == IntervalSec * k
AsOf(k) == IntervalSec * k + 1

MakeKeyPaperOpen(tr) ==
    <<tr.t, tr.pair, tr.side, tr.entry, tr.stop_loss, tr.take_profit, tr.size>>

MakeKeyPaperClosed_ByExitTime(tr) ==
    <<tr.exit_time, tr.pair, tr.side, tr.entry, tr.stop_loss, tr.take_profit, tr.size>>

MakeKeyPaperClosed(tr) ==
    <<tr.open_time, tr.pair, tr.side, tr.entry, tr.stop_loss, tr.take_profit, tr.size>>

\* _simulate_over_klines: the take-profit test comes first for both sides.
RECURSIVE SimulateOverKlines(_, _, _, _)
SimulateOverKlines(side, sl, tp, ks) ==
    IF ks = <<>> THEN "UNKNOWN"
    ELSE LET k == Head(ks) IN
         IF side = "LONG"
         THEN IF k.high >= tp THEN "TP"
              ELSE IF k.low <= sl THEN "SL"
              ELSE SimulateOverKlines(side, sl, tp, Tail(ks))
         ELSE IF k.low <= tp THEN "TP"
              ELSE IF k.high >= sl THEN "SL"
              ELSE SimulateOverKlines(side, sl, tp, Tail(ks))

\* _filter_klines_since: the candles from one interval before the entry on.
FilterKlinesSince(ks, opened_at, interval_sec) ==
    SelectSeq(ks, LAMBDA k : k.t >= opened_at - interval_sec)

ClosedKeys(closed_trades) == {MakeKeyPaperClosed(closed_trades[i]) : i \in DOMAIN closed_trades}

\* The OPEN records whose key is not among the keys of the CLOSED journal.
Candidates_NoDedup(open_trades, closed_trades) == open_trades

Candidates(open_trades, closed_trades) ==
    SelectSeq(open_trades, LAMBDA tr : MakeKeyPaperOpen(tr) \notin ClosedKeys(closed_trades))

\* The pairs of the candidates in the order of their first candidate (the keys of
\* `groups`; no OPEN record carries an interval, so every group is "15m").
RECURSIVE GroupPairs(_, _)
GroupPairs(cands, acc) ==
    IF cands = <<>> THEN acc
    ELSE GroupPairs(Tail(cands),
                    IF \E i \in DOMAIN acc : acc[i] = Head(cands).pair
                    THEN acc ELSE Append(acc, Head(cands).pair))

\* One candidate: simulate it over the candles since its entry and, on TP or SL,
\* append its CLOSED record with the level as the exit price.
CloseCandidate(journal, tr, ks, exit_time) ==
    LET klines_tr == FilterKlinesSince(ks, tr.t, IntervalSec)
        outcome == SimulateOverKlines(tr.side, tr.stop_loss, tr.take_profit, klines_tr)
    IN  IF klines_tr = <<>> \/ outcome \notin {"TP", "SL"} THEN journal
        ELSE RecordClosedPaperTrade(journal,
                ClosedRecord(tr.pair, tr.side, tr.entry, tr.stop_loss, tr.take_profit,
                             tr.size,
                             IF outcome = "TP" THEN tr.take_profit ELSE tr.stop_loss,
                             outcome, tr.t, exit_time))

RECURSIVE CloseGroup(_, _, _, _)
CloseGroup(journal, trs, ks, exit_time) ==
    IF trs = <<>> THEN journal
    ELSE CloseGroup(CloseCandidate(journal, Head(trs), ks, exit_time),
                    Tail(trs), ks, exit_time)

\* The loop over the groups; a group whose candles cannot be fetched is skipped.
RECURSIVE CloseGroups(_, _, _, _, _, _)
CloseGroups(journal, pairs, cands, market, fetch_ok, exit_time) ==
    IF pairs = <<>> THEN journal
    ELSE LET pair == Head(pairs)
             trs == SelectSeq(cands, LAMBDA tr : tr.pair = pair)
         IN  CloseGroups(IF fetch_ok[pair] /\ market[pair] # <<>>
                         THEN CloseGroup(journal, trs, market[pair], exit_time)
                         ELSE journal,
                         Tail(pairs), cands, market, fetch_ok, exit_time)

\* close_paper_trades.main: the CLOSED journal after one closer run.
CloserMain(open_trades, closed_trades, market, fetch_ok, exit_time) ==
    LET candidates == Candidates(open_trades, closed_trades)
    IN  CloseGroups(closed_trades, GroupPairs(candidates, <<>>), candidates,
                    market, fetch_ok, exit_time)

---------------------------------------------------------------------------
(* Log rotation: tools/log_rotation.py *)

\* _should_rotate.  The size test needs a file of more than LOG_ROTATE_MAX_MB
\* megabytes (a whole number of them); no journal here comes near, so of the two
\* tests the line count is the one that can fire.
ShouldRotate(file, max_lines) == file # <<>> /\ max_lines > 0 /\ Len(file) > max_lines

\* _rotate_file: path -> path.1 -> ... -> path.(keep+1), then an empty path.
RotateFile(file, rotated, keep) ==
    IF keep <= 0 THEN [file |-> <<>>, rotated |-> rotated]
    ELSE [file |-> <<>>,
          rotated |-> <<file>> \o SubSeq(rotated, 1, IF Len(rotated) < keep THEN Len(rotated) ELSE keep)]

ClosedJournalPath == "data/paper_trades_closed.jsonl"

\* maybe_rotate_all_logs, for the CLOSED journal.
MaybeRotateAllLogs(c, file, rotated) ==
    IF c.rotate_enabled /\ ClosedJournalPath \in c.rotate_files
       /\ ShouldRotate(file, c.rotate_max_lines)
    THEN RotateFile(file, rotated, c.rotate_keep)
    ELSE [file |-> file, rotated |-> rotated]

---------------------------------------------------------------------------
(* Inputs of decide_pair *)

Universe == <<"BTCUSDT", "ETHUSDT">>

MkVote(agent, pair, v) ==
    [agent |-> agent, pair |-> pair, score |-> v.score,
     confidence |-> v.conf, inputs_fresh |-> v.fresh]

Absent == [score |-> 0, conf |-> 0, fresh |-> FALSE, absent |-> TRUE]

Val(s, c, f) == [score |-> s, conf |-> c, fresh |-> f, absent |-> FALSE]

\* (score, confidence, freshness) of a vote cast for the first pair of the universe.
HomeVals ==
    {Val(s, c, TRUE) : s \in {-One, -5, 5, One}, c \in {5, One}}
        \cup {Val(-One, 0, TRUE), Val(0, One, TRUE),
              Val(-One, One, FALSE), Val(One, One, FALSE), Absent}

\* Votes cast for the second pair, carried in the same list.
OtherPairTechVals == {Val(One, One, TRUE), Val(One, One, FALSE), Absent}
OtherPairNewsVals == {Val(-One, One, TRUE), Absent}

Opt(agent, pair, v) == IF v.absent THEN <<>> ELSE <<MkVote(agent, pair, v)>>

\* The list collect_votes builds: agent by agent, and pair by pair within an agent.
VoteList(t1, t2, n1, n2, s1) ==
    Opt("technical", Universe[1], t1) \o Opt("technical", Universe[2], t2)
        \o Opt("news", Universe[1], n1) \o Opt("news", Universe[2], n2)
        \o Opt("sentiment", Universe[1], s1)

VoteLists ==
    {VoteList(t1, t2, n1, n2, s1) :
        t1 \in HomeVals, t2 \in OtherPairTechVals, n1 \in HomeVals,
        n2 \in OtherPairNewsVals, s1 \in HomeVals}

DefaultWeights == [technical |-> 6]
MixedWeights == [technical |-> 5, news |-> 3, sentiment |-> 2]
\* load_weights takes any number found in weights.yaml, a negative one included.
NegativeWeights == [technical |-> 5, news |-> -3]
WeightSets == {DefaultWeights, MixedWeights, NegativeWeights}

DefaultThresholds == [long |-> 6, short |-> -6]

DefaultEnv ==
    [critical |-> {"technical"}, tech_long |-> TechDriverLong,
     tech_short |-> TechDriverShort, veto_score_min |-> TechVetoScoreMin,
     veto_conf_min |-> TechVetoConfMin]

Envs ==
    {[DefaultEnv EXCEPT !.critical = c] : c \in {{"technical"}, {"news"}, {"technical", "news"}}}
        \cup {[critical |-> c, tech_long |-> 5, tech_short |-> -5,
               veto_score_min |-> 6, veto_conf_min |-> 6] :
               c \in {{"technical"}, {"news"}, {"technical", "news"}}}

NoResult == Result(<<0, 1>>, "NONE", "", {}, <<>>)

---------------------------------------------------------------------------
(* Limits, environment and market of the run cycle *)

Limits(max_trades_per_day, max_daily_risk_r, max_risk_per_trade_r) ==
    [max_trades_per_day |-> max_trades_per_day, max_daily_risk_r |-> max_daily_risk_r,
     max_risk_per_trade_r |-> max_risk_per_trade_r]

\* MAX_TRADES_PER_DAY 0, MAX_DAILY_RISK_R 0.0, MAX_RISK_PER_TRADE_R 1.0
DefaultLimits == Limits(0, 0, One)

NoCheck == [done |-> FALSE, ok |-> TRUE, reason |-> "", updates |-> 0, day |-> 0]

\* The environment with nothing set: paper trading, no rotation.
CfgPaper ==
    [environment |-> "paper", dry_run |-> TRUE, hard_stop |-> FALSE,
     limits |-> DefaultLimits, testnet_enabled |-> FALSE, testnet_client |-> FALSE,
     rotate_enabled |-> FALSE,
     rotate_files |-> {"data/runs.log", "data/paper_trades_closed.jsonl"},
     rotate_max_lines |-> 50000, rotate_keep |-> 5,
     weights |-> DefaultWeights, backtest_mode |-> FALSE]

\* LOG_ROTATE_ENABLED=true LOG_ROTATE_MAX_LINES=1 LOG_ROTATE_KEEP=1
CfgRotate ==
    [CfgPaper EXCEPT !.rotate_enabled = TRUE, !.rotate_max_lines = 1, !.rotate_keep = 1]

\* ENVIRONMENT=testnet BINANCE_TESTNET_ENABLED=true MAX_TRADES_PER_DAY=1
CfgTestnet ==
    [CfgPaper EXCEPT !.environment = "testnet", !.testnet_enabled = TRUE,
                     !.testnet_client = TRUE, !.limits = Limits(1, 0, One)]

\* ENVIRONMENT=live (DRY_RUN defaults to true)
CfgLiveDry == [CfgPaper EXCEPT !.environment = "live"]

\* ENVIRONMENT=testnet BINANCE_TESTNET_ENABLED=true TRADING_HARD_STOP=true
CfgHardStop ==
    [CfgPaper EXCEPT !.environment = "testnet", !.testnet_enabled = TRUE,
                     !.testnet_client = TRUE, !.hard_stop = TRUE]

\* configs/weights.yaml without a weight for the technical agent
CfgNoTechWeight == [CfgPaper EXCEPT !.weights = [news |-> One]]

\* run_once(backtest_mode=True)
CfgBacktest == [CfgPaper EXCEPT !.backtest_mode = TRUE]

Configs == {CfgPaper, CfgRotate, CfgTestnet, CfgLiveDry, CfgHardStop, CfgNoTechWeight,
            CfgBacktest}

Pairs == {Universe[1]}

\* A candle of interval k: its open time, high and low.  A quiet candle touches
\* no level of a trade entered at the last price; an "up" candle reaches the
\* take-profit of a LONG and the stop of a SHORT.
Candle(k, kind) ==
    [t |-> OpenTimeOf(k),
     high |-> IF kind = "up" THEN 1007 ELSE 1002,
     low |-> IF kind = "up" THEN 1000 ELSE 998]

CandleKinds == {"quiet", "up"}

\* The close of the last candle, which collect_votes reports as last price.
LastPrice == 1000

NoRun == [closer |-> [read |-> <<>>, written |-> <<>>], signals |-> <<>>, aborted |-> FALSE]

IdleDecide ==
    /\ dPair = Universe[1]
    /\ dVotes = <<>>
    /\ dWeights = DefaultWeights
    /\ dEnv = DefaultEnv
    /\ dOut = NoResult
    /\ dCalls = <<>>

\* simulate_backtest's parameters: score_min in tenths, rr in tenths, sl_pct in
\* thousandths.
Params(score_min, rr, sl_pct) == [score_min |-> score_min, rr |-> rr, sl_pct |-> sl_pct]

DefaultParams == Params(0, 15, 4)

IdleBacktest ==
    /\ btCandles = <<>>
    /\ btParams = DefaultParams
    /\ btRuns = <<>>

NotCollected == [done |-> FALSE, votes |-> <<>>]

NoLevels == [done |-> FALSE, side |-> "", entry |-> 0, stop_loss |-> 0, take_profit |-> 0]

IdleLevels ==
    /\ olIn = <<>>
    /\ olOut = NoLevels

IdleCollect ==
    /\ cvIn = <<>>
    /\ cvOut = NotCollected

IdleFunctions ==
    /\ IdleCollect
    /\ IdleLevels
    /\ pnlIn = <<>>

IdleLimits ==
    /\ lim = DefaultLimits
    /\ lastCheck = NoCheck
    /\ updatesToday = 0
    /\ blockedDay = -1

IdleRun ==
    /\ cfg = CfgPaper
    /\ phase = "idle"
    /\ now = 0
    /\ klines = [p \in Pairs |-> <<>>]
    /\ paperOpen = <<>>
    /\ paperClosed = <<>>
    /\ closedRotated = <<>>
    /\ closedEver = <<>>
    /\ orders = <<>>
    /\ lastRun = NoRun

---------------------------------------------------------------------------
(* decide_pair on its own *)

CallRecord(pair, votes, weights, thresholds, e, out) ==
    [pair |-> pair, votes |-> votes, weights |-> weights, thresholds |-> thresholds, env |-> e, out |-> out]

InitDecide ==
    /\ dPair = Universe[1]
    /\ dVotes \in VoteLists
    /\ dWeights \in WeightSets
    /\ dEnv \in Envs
    /\ dOut = NoResult
    /\ dCalls = <<>>
    /\ day = 0
    /\ tradingState = NoFile
    /\ IdleLimits
    /\ IdleRun
    /\ IdleBacktest
    /\ IdleFunctions

\* One call of decide_pair on the inputs.
Decide ==
    /\ dOut = NoResult
    /\ dOut' = DecidePair(dPair, dVotes, dWeights, DefaultThresholds, dEnv)
    /\ dCalls' = Append(dCalls, CallRecord(dPair, dVotes, dWeights, DefaultThresholds, dEnv, dOut'))
    /\ UNCHANGED <<bvars, fvars, dPair, dVotes, dWeights, dEnv, day, tradingState, lvars, rvars>>

NextDecide == Decide

SpecDecide == InitDecide /\ [][NextDecide]_vars

---------------------------------------------------------------------------
(* Repeated calls of decide_pair in one process, with the threshold sweep
   changing the environment between them *)

MaxCalls == 3

PureVoteLists ==
    {VoteList(t1, Absent, n1, Absent, Absent) :
        t1 \in {Val(One, One, TRUE), Val(5, One, TRUE), Val(-One, One, TRUE)},
        n1 \in {Val(-One, One, TRUE), Absent}}

\* The (long, short) combinations of a sweep: the defaults and a looser pair.
SweepThresholds == {<<TechDriverLong, TechDriverShort>>, <<5, -5>>}

InitPure ==
    /\ dPair = Universe[1]
    /\ dVotes \in PureVoteLists
    /\ dWeights \in WeightSets
    /\ dEnv = DefaultEnv
    /\ dOut = NoResult
    /\ dCalls = <<>>
    /\ day = 0
    /\ tradingState = NoFile
    /\ IdleLimits
    /\ IdleRun
    /\ IdleBacktest
    /\ IdleFunctions

\* decide_pair called on the current arguments, in the current environment.
PureCall ==
    /\ Len(dCalls) < MaxCalls
    /\ dOut' = DecidePair(dPair, dVotes, dWeights, DefaultThresholds, dEnv)
    /\ dCalls' = Append(dCalls, CallRecord(dPair, dVotes, dWeights, DefaultThresholds, dEnv, dOut'))
    /\ UNCHANGED <<bvars, fvars, dPair, dVotes, dWeights, dEnv, day, tradingState, lvars, rvars>>

\* _set_threshold_env: os.environ["TECH_DRIVER_LONG"/"TECH_DRIVER_SHORT"] assigned.
SetThresholdEnv ==
    /\ \E t \in SweepThresholds :
          /\ <<dEnv.tech_long, dEnv.tech_short>> # t
          /\ dEnv' = [dEnv EXCEPT !.tech_long = t[1], !.tech_short = t[2]]
    /\ UNCHANGED <<bvars, fvars, dPair, dVotes, dWeights, dOut, dCalls, day, tradingState, lvars, rvars>>

\* The caller comes with another vote list.
NextVotes ==
    /\ \E v \in PureVoteLists \ {dVotes} : dVotes' = v
    /\ UNCHANGED <<bvars, fvars, dPair, dWeights, dEnv, dOut, dCalls, day, tradingState, lvars, rvars>>

NextPure == PureCall \/ SetThresholdEnv \/ NextVotes

SpecPure == InitPure /\ [][NextPure]_vars

---------------------------------------------------------------------------
(* The daily limits on their own: any order of checks, updates and date changes *)

MaxDay == 1
MaxUpdates == 3

LimitSets ==
    {Limits(n, r, t) : n \in {0, 1, 2}, r \in {0, One, 2 * One}, t \in {0, 5, One}}

\* A state file a previous day left behind, or none.
InitialStateFiles == {NoFile, StateFile(-1, 2, 2 * One)}

InitLimits ==
    /\ day = 0
    /\ tradingState \in InitialStateFiles
    /\ lim \in LimitSets
    /\ lastCheck = NoCheck
    /\ updatesToday = 0
    /\ blockedDay = -1
    /\ IdleDecide
    /\ IdleRun
    /\ IdleBacktest
    /\ IdleFunctions

\* check_trading_limits(..., assumed_r_per_trade=1.0)
LimCheck ==
    LET r == CheckTradingLimits(tradingState, day, lim.max_trades_per_day,
                                lim.max_daily_risk_r, lim.max_risk_per_trade_r, One)
    IN  /\ lastCheck' = [done |-> TRUE, ok |-> r.ok, reason |-> r.reason,
                         updates |-> updatesToday, day |-> day]
        /\ blockedDay' = IF r.reason = "max_trades_per_day reached" THEN day ELSE blockedDay
        /\ UNCHANGED <<bvars, fvars, day, tradingState, lim, updatesToday, dvars, rvars>>

\* update_trading_state_after_trade(assumed_r_per_trade=1.0)
LimUpdate ==
    /\ updatesToday < MaxUpdates
    /\ tradingState' = UpdateTradingStateAfterTrade(tradingState, day, One)
    /\ updatesToday' = updatesToday + 1
    /\ UNCHANGED <<bvars, fvars, day, lim, lastCheck, blockedDay, dvars, rvars>>

\* Midnight UTC passes.
LimAdvanceDay ==
    /\ day < MaxDay
    /\ day' = day + 1
    /\ updatesToday' = 0
    /\ UNCHANGED <<bvars, fvars, tradingState, lim, lastCheck, blockedDay, dvars, rvars>>

NextLimits == LimCheck \/ LimUpdate \/ LimAdvanceDay

SpecLimits == InitLimits /\ [][NextLimits]_vars

\* The same operations on a state file that is missing or damaged.
DamagedStateFiles == {NoFile, InvalidJson, NotAnObject, BadFields(0), BadFields(1)}

InitDamaged ==
    /\ day = 0
    /\ tradingState \in DamagedStateFiles
    /\ lim \in LimitSets
    /\ lastCheck = NoCheck
    /\ updatesToday = 0
    /\ blockedDay = -1
    /\ IdleDecide
    /\ IdleRun
    /\ IdleBacktest
    /\ IdleFunctions

SpecDamaged == InitDamaged /\ [][NextLimits]_vars

\* The caller's discipline: update_trading_state_after_trade is called only
\* directly after a check_trading_limits that returned True, with the same
\* assumed_r_per_trade.  The state file is absent, a previous day's, or what
\* one such trade of today left.
CheckedStateFiles == InitialStateFiles \cup {StateFile(0, 1, One)}

InitChecked ==
    /\ day = 0
    /\ tradingState \in CheckedStateFiles
    /\ lim \in LimitSets
    /\ lastCheck = NoCheck
    /\ updatesToday = 0
    /\ blockedDay = -1
    /\ IdleDecide
    /\ IdleRun
    /\ IdleBacktest
    /\ IdleFunctions

\* update_trading_state_after_trade(assumed_r_per_trade=1.0) after a check that
\* allowed the trade; midnight may pass between the two calls.
LimUpdateChecked ==
    /\ lastCheck.done
    /\ lastCheck.ok
    /\ updatesToday < MaxUpdates
    /\ tradingState' = UpdateTradingStateAfterTrade(tradingState, day, One)
    /\ updatesToday' = updatesToday + 1
    /\ lastCheck' = NoCheck
    /\ UNCHANGED <<bvars, fvars, day, lim, blockedDay, dvars, rvars>>

NextChecked == LimCheck \/ LimUpdateChecked \/ LimAdvanceDay

SpecChecked == InitChecked /\ [][NextChecked]_vars

---------------------------------------------------------------------------
(* run_once: src/app/main.py.  One action is one whole run: log rotation, the
   closer, the votes and decision of every pair, and the gates and trade
   branches of every result.  Telegram and the testnet mirror journal of the
   closer keep no state of the journals or limits and are left out. *)

MaxTick == 3

\* The pairs of a run: a universe of one pair, or run_once(single_pair=...).
RunPairs == <<Universe[1]>>

\* What a run finds for one pair: candles or none, and the technical agent's
\* vote (absent when the agent failed or there were no candles).
RunVals == {Val(One, One, TRUE), Val(-One, One, TRUE), Val(One, One, FALSE)}

RunInputs ==
    {[rows |-> FALSE, vote |-> Absent]}
        \cup {[rows |-> TRUE, vote |-> v] : v \in RunVals \cup {Absent}}

\* collect_votes: the votes of the one loaded agent, pair by pair, and the last prices.
RECURSIVE CollectVotes_AbortOnFailure(_, _)
CollectVotes_AbortOnFailure(pairs, inp) ==
    IF pairs = <<>> THEN <<>>
    ELSE IF inp[Head(pairs)].rows /\ inp[Head(pairs)].vote.absent THEN <<>>
    ELSE (IF inp[Head(pairs)].rows
          THEN Opt("technical", Head(pairs), inp[Head(pairs)].vote) ELSE <<>>)
             \o CollectVotes_AbortOnFailure(Tail(pairs), inp)

RECURSIVE CollectVotes(_, _)
CollectVotes(pairs, inp) ==
    IF pairs = <<>> THEN <<>>
    ELSE (IF inp[Head(pairs)].rows
          THEN Opt("technical", Head(pairs), inp[Head(pairs)].vote) ELSE <<>>)
             \o CollectVotes(Tail(pairs), inp)

\* last_prices.get(pair): an empty sequence stands for None.
LastPriceOf(inp, pair) == IF inp[pair].rows THEN <<LastPrice>> ELSE <<>>

\* abs(score) >= minimum, for S an exact fraction in tenths.
ScoreAbsReaches(S, minimum) == Abs(S[1]) >= minimum * S[2]

\* can_trade after the risk gate: no hard stop, and the limits check passed.
CanTrade_Unchecked(c, check) == ~c.hard_stop

CanTrade(c, check) == ~c.hard_stop /\ check.ok

\* The testnet branch: send the market order and, if the exchange accepted it,
\* call update_trading_state_after_trade; an exception of either is swallowed.
TestnetOrder_NoUpdate(file, sent, today, pair, side, order_ok) ==
    IF order_ok
    THEN [file |-> file,
          orders |-> Append(sent, [day |-> today, pair |-> pair, side |-> side]),
          order |-> TRUE, updated |-> FALSE]
    ELSE [file |-> file, orders |-> sent, order |-> FALSE, updated |-> FALSE]

TestnetOrder(file, sent, today, pair, side, order_ok) ==
    IF order_ok
    THEN [file |-> UpdateTradingStateAfterTrade(file, today, One),
          orders |-> Append(sent, [day |-> today, pair |-> pair, side |-> side]),
          order |-> TRUE, updated |-> TRUE]
    ELSE [file |-> file, orders |-> sent, order |-> FALSE, updated |-> FALSE]

Event(pair, decision, checked, ok, paper, dry_run, order, updated) ==
    [pair |-> pair, decision |-> decision, checked |-> checked, ok |-> ok,
     paper |-> paper, dry_run |-> dry_run, order |-> order, updated |-> updated]

\* The body of the loop over the results, for one result.  st carries the OPEN
\* journal, the state file, the orders, the events and whether the run has died.
ProcessResult(st, c, today, asof, pair, res, price, order_ok) ==
    IF st.aborted \/ res.decision \notin {"LONG", "SHORT"}
       \/ ~ScoreAbsReaches(res.S, FinalScoreMin)
    THEN st
    ELSE LET has_levels == price # <<>>
             levels == ComputeOrderLevels(res.decision, IF has_levels THEN price[1] ELSE 0, 15, 4)
             checked == ~c.hard_stop
             check == IF checked
                      THEN CheckTradingLimits(st.file, today, c.limits.max_trades_per_day,
                                              c.limits.max_daily_risk_r,
                                              c.limits.max_risk_per_trade_r, One)
                      ELSE [ok |-> FALSE, reason |-> "TRADING_HARD_STOP active"]
             can_trade == CanTrade(c, check)
             open1 == IF has_levels
                      THEN OpenPaperTrade(st.open, asof, pair, levels.side, levels.entry,
                                          levels.stop_loss, levels.take_profit, One)
                      ELSE st.open
             dry == can_trade /\ c.environment = "live" /\ c.dry_run /\ has_levels
             tn == IF ~dry /\ can_trade /\ c.environment = "testnet" /\ c.testnet_enabled
                      /\ c.testnet_client /\ has_levels
                   THEN TestnetOrder(st.file, st.orders, today, pair, levels.side, order_ok[pair])
                   ELSE [file |-> st.file, orders |-> st.orders, order |-> FALSE, updated |-> FALSE]
         IN  IF c.backtest_mode THEN st
             ELSE [open |-> open1, file |-> tn.file, orders |-> tn.orders,
                   aborted |-> dry,
                   events |-> Append(st.events,
                                Event(pair, res.decision, checked, check.ok, has_levels,
                                      dry, tn.order, tn.updated))]

RECURSIVE ProcessResults(_, _, _, _, _, _, _, _)
ProcessResults(st, c, today, asof, pairs, votes, inp, order_ok) ==
    IF pairs = <<>> THEN st
    ELSE ProcessResults(
            ProcessResult(st, c, today, asof, Head(pairs),
                          DecidePair(Head(pairs), votes, c.weights, DefaultThresholds, DefaultEnv),
                          LastPriceOf(inp, Head(pairs)), order_ok),
            c, today, asof, Tail(pairs), votes, inp, order_ok)

---------------------------------------------------------------------------
(* simulate_backtest *)

\* results[0] of run_once(single_pair = pair, backtest_mode = True): the decision
\* on the votes the run collects.  The candle is not among its inputs.
RunOnceResult(pair, inp, weights) ==
    DecidePair(pair, CollectVotes(<<pair>>, [p \in {pair} |-> inp]), weights,
               DefaultThresholds, DefaultEnv)

OpenTrade(pair, ol, idx, candle, score) ==
    [pair |-> pair, side |-> ol.side, entry |-> ol.entry, stop_loss |-> ol.stop_loss,
     take_profit |-> ol.take_profit, entry_idx |-> idx, entry_ts |-> candle.t,
     entry_score |-> score]

ClosedTrade(t, idx, candle, exit_price, pnl) ==
    [pair |-> t.pair, side |-> t.side, entry |-> t.entry, stop_loss |-> t.stop_loss,
     take_profit |-> t.take_profit, entry_idx |-> t.entry_idx, entry_ts |-> t.entry_ts,
     entry_score |-> t.entry_score, exit_idx |-> idx, exit_ts |-> candle.t,
     exit |-> exit_price, pnl_r |-> pnl]

\* The SL/TP test of one candle against the open trade: <<>> when neither level
\* is crossed, else <<pnl, exit_price>>.  The stop-loss is tested first.
ExitOf_FlatLoss(t, candle, rr) ==
    IF t.side = "LONG"
    THEN IF candle.low <= t.stop_loss THEN <<0, t.stop_loss>>
         ELSE IF candle.h >= t.take_profit THEN <<rr, t.take_profit>>
         ELSE <<>>
    ELSE IF candle.h >= t.stop_loss THEN <<0, t.stop_loss>>
         ELSE IF candle.low <= t.take_profit THEN <<rr, t.take_profit>>
         ELSE <<>>

ExitOf(t, candle, rr) ==
    IF t.side = "LONG"
    THEN IF candle.low <= t.stop_loss THEN <<-One, t.stop_loss>>
         ELSE IF candle.h >= t.take_profit THEN <<rr, t.take_profit>>
         ELSE <<>>
    ELSE IF candle.h >= t.stop_loss THEN <<-One, t.stop_loss>>
         ELSE IF candle.low <= t.take_profit THEN <<rr, t.take_profit>>
         ELSE <<>>

\* The body of the loop over the candles.  st.open is the open trade (<<>> for
\* None), st.trades the closed ones; idx counts from 0 as enumerate does.
BacktestStep(st, pair, idx, candle, res, par) ==
    IF ~ScoreAbsReaches(res.S, par.score_min) THEN st
    ELSE IF res.decision \in {"LONG", "SHORT"} /\ st.open = <<>>
    THEN [st EXCEPT !.open =
            <<OpenTrade(pair, ComputeOrderLevels(res.decision, candle.c, par.rr, par.sl_pct),
                        idx, candle, res.S)>>]
    ELSE IF st.open = <<>> THEN st
    ELSE LET x == ExitOf(st.open[1], candle, par.rr)
         IN  IF x = <<>> THEN st
             ELSE [open |-> <<>>,
                   trades |-> Append(st.trades, ClosedTrade(st.open[1], idx, candle, x[2], x[1]))]

RECURSIVE BacktestLoop(_, _, _, _, _, _)
BacktestLoop(st, pair, candles, results, par, k) ==
    IF k > Len(candles) THEN st
    ELSE BacktestLoop(BacktestStep(st, pair, k - 1, candles[k], results[k], par),
                      pair, candles, results, par, k + 1)

RECURSIVE SumPnl(_)
SumPnl(trades) == IF trades = <<>> THEN 0 ELSE Head(trades).pnl_r + SumPnl(Tail(trades))

Winners(trades) == SelectSeq(trades, LAMBDA t : t.pnl_r > 0)
Losers(trades) == SelectSeq(trades, LAMBDA t : t.pnl_r < 0)

GrossLoss_Signed(trades) == SumPnl(Losers(trades))

GrossLoss(trades) == -SumPnl(Losers(trades))

\* The aggregation; a ratio is an exact fraction, and <<>> stands for None.
Aggregate(pair, trades) ==
    LET n == Len(trades)
        wins == Len(Winners(trades))
        losses == Len(Losers(trades))
        gross_profit == SumPnl(Winners(trades))
        gross_loss == GrossLoss(trades)
    IN  [pair |-> pair, n_trades |-> n, wins |-> wins, losses |-> losses,
         winrate |-> IF n > 0 THEN <<Frac(wins, n)>> ELSE <<>>,
         pf |-> IF n > 0 /\ gross_loss > 0 THEN <<Frac(gross_profit, gross_loss)>> ELSE <<>>,
         expectancy |-> IF n > 0 THEN <<Frac(SumPnl(trades), n)>> ELSE <<>>,
         trades |-> trades]

\* simulate_backtest, given what run_once returns on each pass of the loop.
SimulateBacktest_KeepsOpen(pair, candles, results, par) ==
    LET st == BacktestLoop([open |-> <<>>, trades |-> <<>>], pair, candles, results, par, 1)
    IN  Aggregate(pair,
            IF st.open = <<>> THEN st.trades
            ELSE Append(st.trades, ClosedTrade(st.open[1], Len(candles) - 1, candles[Len(candles)],
                                               st.open[1].entry, 0)))

SimulateBacktest(pair, candles, results, par) ==
    Aggregate(pair, BacktestLoop([open |-> <<>>, trades |-> <<>>], pair, candles, results, par, 1).trades)

Init ==
    /\ cfg \in Configs
    /\ phase = "due"
    /\ now = 0
    /\ klines \in {[p \in Pairs |-> <<Candle(0, kind[p])>>] : kind \in [Pairs -> CandleKinds]}
    /\ paperOpen = <<>>
    /\ paperClosed = <<>>
    /\ closedRotated = <<>>
    /\ closedEver = <<>>
    /\ orders = <<>>
    /\ lastRun = NoRun
    /\ day = 0
    /\ tradingState = NoFile
    /\ IdleDecide
    /\ IdleLimits
    /\ IdleBacktest
    /\ IdleFunctions

RunOnce ==
    /\ phase = "due"
    /\ \E inp \in [Pairs -> RunInputs], fetch_ok \in [Pairs -> BOOLEAN],
          order_ok \in [Pairs -> BOOLEAN] :
        LET rot == MaybeRotateAllLogs(cfg, paperClosed, closedRotated)
            closed1 == CloserMain(paperOpen, rot.file, klines, fetch_ok, AsOf(now))
            written == SubSeq(closed1, Len(rot.file) + 1, Len(closed1))
            st0 == [open |-> paperOpen, file |-> tradingState, orders |-> orders,
                    aborted |-> FALSE, events |-> <<>>]
            st == ProcessResults(st0, cfg, day, AsOf(now), RunPairs,
                                 CollectVotes(RunPairs, inp), inp, order_ok)
        IN  /\ paperClosed' = closed1
            /\ closedRotated' = rot.rotated
            /\ closedEver' = closedEver \o written
            /\ paperOpen' = st.open
            /\ tradingState' = st.file
            /\ orders' = st.orders
            /\ lastRun' = [closer |-> [read |-> rot.file, written |-> written],
                           signals |-> st.events, aborted |-> st.aborted]
    /\ phase' = "ran"
    /\ UNCHANGED <<bvars, fvars, cfg, now, klines, day, dvars, lvars>>

\* The next candle interval begins; midnight UTC may have passed.
Tick ==
    /\ phase = "ran"
    /\ now < MaxTick
    /\ \E kind \in [Pairs -> CandleKinds], d \in {day, day + 1} :
        /\ d <= MaxDay
        /\ klines' = [p \in Pairs |-> Append(klines[p], Candle(now + 1, kind[p]))]
        /\ day' = d
    /\ now' = now + 1
    /\ phase' = "due"
    /\ UNCHANGED <<bvars, fvars, cfg, paperOpen, paperClosed, closedRotated, closedEver, orders, lastRun,
                   tradingState, dvars, lvars>>

Next == RunOnce \/ Tick

Spec == Init /\ [][Next]_vars

---------------------------------------------------------------------------
(* The journal functions on their own: any caller may open a trade, record a
   close, or run the closer, in any order. *)

MaxCloseTick == 2
MaxOpen == 2
MaxClosed == 2

InitClose ==
    /\ phase = "start"
    /\ now = 0
    /\ klines \in {[p \in Pairs |-> <<Candle(0, kind[p])>>] : kind \in [Pairs -> CandleKinds]}
    /\ paperOpen = <<>>
    /\ paperClosed = <<>>
    /\ closedRotated = <<>>
    /\ closedEver = <<>>
    /\ orders = <<>>
    /\ lastRun = NoRun
    /\ cfg = CfgPaper
    /\ day = 0
    /\ tradingState = NoFile
    /\ IdleDecide
    /\ IdleLimits
    /\ IdleBacktest
    /\ IdleFunctions

\* open_paper_trade(...) at the last price; the clock has moved since any
\* earlier open, so no two OPEN records carry the same time.
OpenCall ==
    /\ Len(paperOpen) < MaxOpen
    /\ \A i \in DOMAIN paperOpen : paperOpen[i].t # AsOf(now)
    /\ \E pair \in Pairs, side \in {"LONG", "SHORT"} :
        LET levels == ComputeOrderLevels(side, LastPrice, 15, 4)
        IN  paperOpen' = OpenPaperTrade(paperOpen, AsOf(now), pair, levels.side, levels.entry,
                                        levels.stop_loss, levels.take_profit, One)
    /\ phase' = "open"
    /\ UNCHANGED <<bvars, fvars, cfg, now, klines, paperClosed, closedRotated, closedEver, orders, lastRun,
                   day, tradingState, dvars, lvars>>

\* record_closed_paper_trade(...) for one of the OPEN records.
CloseCall ==
    /\ Len(paperClosed) < MaxClosed
    /\ \E i \in DOMAIN paperOpen, outcome \in {"TP", "SL", "MANUAL"} :
        LET tr == paperOpen[i]
            exit_price == IF outcome = "TP" THEN tr.take_profit
                          ELSE IF outcome = "SL" THEN tr.stop_loss ELSE tr.entry
            rec == ClosedRecord(tr.pair, tr.side, tr.entry, tr.stop_loss, tr.take_profit,
                                tr.size, exit_price, outcome, tr.t, AsOf(now))
        IN  /\ paperClosed' = RecordClosedPaperTrade(paperClosed, rec)
            /\ closedEver' = Append(closedEver, rec)
    /\ phase' = "close"
    /\ UNCHANGED <<bvars, fvars, cfg, now, klines, paperOpen, closedRotated, orders, lastRun,
                   day, tradingState, dvars, lvars>>

\* close_paper_trades.main()
CloserRun ==
    /\ \E fetch_ok \in [Pairs -> BOOLEAN] :
        LET closed1 == CloserMain(paperOpen, paperClosed, klines, fetch_ok, AsOf(now))
            written == SubSeq(closed1, Len(paperClosed) + 1, Len(closed1))
        IN  /\ paperClosed' = closed1
            /\ closedEver' = closedEver \o written
            /\ lastRun' = [closer |-> [read |-> paperClosed, written |-> written],
                           signals |-> <<>>, aborted |-> FALSE]
    /\ phase' = "closer"
    /\ UNCHANGED <<bvars, fvars, cfg, now, klines, paperOpen, closedRotated, orders,
                   day, tradingState, dvars, lvars>>

\* The next candle interval begins.
CandleTick ==
    /\ now < MaxCloseTick
    /\ \E kind \in [Pairs -> CandleKinds] :
        klines' = [p \in Pairs |-> Append(klines[p], Candle(now + 1, kind[p]))]
    /\ now' = now + 1
    /\ phase' = "tick"
    /\ UNCHANGED <<bvars, fvars, cfg, paperOpen, paperClosed, closedRotated, closedEver, orders, lastRun,
                   day, tradingState, dvars, lvars>>

NextClose == OpenCall \/ CloseCall \/ CloserRun \/ CandleTick

SpecClose == InitClose /\ [][NextClose]_vars

---------------------------------------------------------------------------
(* Backtests: simulate_backtest called on a candle array, once or twice *)

MaxCandles == 4
MaxRuns == 2

\* One candle {"t", "c", "h", "low"}; every candle closes at the same price.
BtCandle(k, kind) ==
    [t |-> k, c |-> LastPrice,
     h |-> CASE kind = "quiet" -> 1002 [] kind = "up" -> 1007
             [] kind = "down" -> 1000 [] OTHER -> 1008,
     low |-> CASE kind = "quiet" -> 998 [] kind = "up" -> 1000
               [] kind = "down" -> 993 [] OTHER -> 992]

BtCandleKinds == {"quiet", "up", "down", "wide"}

CandleArrays ==
    {[k \in 1..MaxCandles |-> BtCandle(k, kinds[k])] : kinds \in [1..MaxCandles -> BtCandleKinds]}

ParamSets == {Params(m, rr, 4) : m \in {0, FinalScoreMin}, rr \in {15, 20}}

\* What the run of one pass collects: a technical vote of the moment.
BtInputs ==
    {[rows |-> TRUE, vote |-> v] :
        v \in {Val(One, One, TRUE), Val(-One, One, TRUE), Val(5, One, TRUE)}}

InitBacktest ==
    /\ btCandles \in CandleArrays
    /\ btParams \in ParamSets
    /\ btRuns = <<>>
    /\ IdleFunctions
    /\ day = 0
    /\ tradingState = NoFile
    /\ IdleDecide
    /\ IdleLimits
    /\ IdleRun

\* One call of simulate_backtest.  Each pass of its loop calls run_once, which
\* collects the votes of that moment; with no journal entry and no log on disk
\* the rotation and the closer that run_once starts change nothing.
Backtest ==
    /\ Len(btRuns) < MaxRuns
    /\ \E inp \in [DOMAIN btCandles -> BtInputs] :
          btRuns' = Append(btRuns,
                       SimulateBacktest(Universe[1], btCandles,
                           [k \in DOMAIN btCandles |-> RunOnceResult(Universe[1], inp[k], DefaultWeights)],
                           btParams))
    /\ UNCHANGED <<fvars, btCandles, btParams, day, tradingState, dvars, lvars, rvars>>

NextBacktest == Backtest

SpecBacktest == InitBacktest /\ [][NextBacktest]_vars

---------------------------------------------------------------------------
(* collect_votes on a universe of two pairs *)

\* Per pair: no candles, or candles and what the technical agent's run yields;
\* Absent stands for a run that raised or returned something that is no dict.
CollectInputs ==
    {[rows |-> FALSE, vote |-> Absent]} \cup {[rows |-> TRUE, vote |-> v] : v \in HomeVals}

InitCollect ==
    /\ cvIn \in [{Universe[1], Universe[2]} -> CollectInputs]
    /\ cvOut = NotCollected
    /\ IdleLevels
    /\ pnlIn = <<>>
    /\ day = 0
    /\ tradingState = NoFile
    /\ IdleDecide
    /\ IdleBacktest
    /\ IdleLimits
    /\ IdleRun

Collect ==
    /\ ~cvOut.done
    /\ cvOut' = [done |-> TRUE, votes |-> CollectVotes(Universe, cvIn)]
    /\ UNCHANGED <<cvIn, olIn, olOut, pnlIn, day, tradingState, dvars, bvars, lvars, rvars>>

NextCollect == Collect

SpecCollect == InitCollect /\ [][NextCollect]_vars

---------------------------------------------------------------------------
(* compute_order_levels on a range of prices *)

\* Prices from 0.000001 to 100.0; 100.0 with rr = 1.5 and a distance of 1 % is
\* among the inputs.
LevelPrices == {1, 10, 37, 1000, 2600, 100000000}

LevelInputs ==
    {[side |-> sd, price |-> p, rr |-> rr, sl_distance |-> dist] :
        sd \in {"LONG", "SHORT"}, p \in LevelPrices, rr \in {10, 15, 20, 30},
        dist \in {2, 4, 10, 20}}

InitLevels ==
    /\ olIn \in LevelInputs
    /\ olOut = NoLevels
    /\ pnlIn = <<>>
    /\ IdleCollect
    /\ day = 0
    /\ tradingState = NoFile
    /\ IdleDecide
    /\ IdleBacktest
    /\ IdleLimits
    /\ IdleRun

Levels ==
    /\ ~olOut.done
    /\ olOut' = [done |-> TRUE] @@ ComputeOrderLevels(olIn.side, olIn.price, olIn.rr, olIn.sl_distance)
    /\ UNCHANGED <<olIn, pnlIn, cvIn, cvOut, day, tradingState, dvars, bvars, lvars, rvars>>

NextLevels == Levels

SpecLevels == InitLevels /\ [][NextLevels]_vars

---------------------------------------------------------------------------
(* record_closed_paper_trade on trades closed at a level, and on trades whose
   stop lies at or beyond the entry *)

CloseInput(side, entry, stop_loss, take_profit, exit_price, outcome, levels) ==
    [side |-> side, entry |-> entry, stop_loss |-> stop_loss, take_profit |-> take_profit,
     exit_price |-> exit_price, outcome |-> outcome, levels |-> levels]

\* Trades with the levels of compute_order_levels, closed at the take-profit or
\* at the stop; levels holds the arguments the levels were computed from.
LevelTrades ==
    UNION {LET ol == ComputeOrderLevels(i.side, i.price, i.rr, i.sl_distance)
           IN  {CloseInput(ol.side, ol.entry, ol.stop_loss, ol.take_profit, ol.take_profit, "TP", <<i>>),
                CloseInput(ol.side, ol.entry, ol.stop_loss, ol.take_profit, ol.stop_loss, "SL", <<i>>)}
           : i \in LevelInputs}

\* Trades with levels set by hand, the stop on either side of the entry.
ManualTrades ==
    {CloseInput(sd, 100, stop, IF sd = "LONG" THEN 105 ELSE 95, ex, "MANUAL", <<>>) :
        sd \in {"LONG", "SHORT"}, stop \in {97, 99, 100, 101, 103}, ex \in {95, 98, 100, 102, 105}}

InitPnl ==
    /\ pnlIn \in LevelTrades \cup ManualTrades
    /\ IdleCollect
    /\ IdleLevels
    /\ day = 0
    /\ tradingState = NoFile
    /\ IdleDecide
    /\ IdleBacktest
    /\ IdleLimits
    /\ IdleRun

\* record_closed_paper_trade(...): the CLOSED record is appended to the journal.
ClosePaper ==
    /\ paperClosed = <<>>
    /\ paperClosed' =
          RecordClosedPaperTrade(paperClosed,
              ClosedRecord(Universe[1], pnlIn.side, pnlIn.entry, pnlIn.stop_loss,
                           pnlIn.take_profit, One, pnlIn.exit_price, pnlIn.outcome, 0, 1))
    /\ closedEver' = paperClosed'
    /\ UNCHANGED <<fvars, bvars, dvars, lvars, day, tradingState, cfg, phase, now, klines,
                   paperOpen, closedRotated, orders, lastRun>>

NextPnl == ClosePaper

SpecPnl == InitPnl /\ [][NextPnl]_vars

---------------------------------------------------------------------------
(* Claims about decide_pair *)

Decided == dOut.decision # "NONE"

\* The vote set decide_pair evaluates: one entry per agent name.
dDict == NormalizeVotes(dVotes)

TechPresent == HasAgent(dDict, "technical")
TechEntry == EntryOf(dDict, "technical")
Others == {i \in DOMAIN dDict : dDict[i].name # "technical"}

\* C1: whenever the technical vote has inputs_fresh = false, decide_pair returns
\* HOLD, whatever the other agents vote and whatever the weights, the trigger and
\* veto thresholds and the set of critical agents are.
C1_StaleTechnicalHolds ==
    (Decided /\ TechPresent /\ ~TechEntry.fresh) => dOut.decision = "HOLD"

C1_Witness ==
    /\ Decided /\ TechPresent /\ ~TechEntry.fresh
    /\ TechEntry.score >= dEnv.tech_long
    /\ "technical" \notin CriticalAgents(dEnv)
    /\ \E i \in Others : dDict[i].fresh /\ dDict[i].score = One /\ dDict[i].conf = One
    /\ dOut.decision = "HOLD"

\* Step 2 of decide_pair was reached: votes present, no critical agent stale, the
\* technical vote present and fresh.
DriverStage ==
    /\ dDict # <<>>
    /\ \A i \in DOMAIN dDict :
          dDict[i].name \in CriticalAgents(dEnv) => dDict[i].fresh
    /\ TechPresent /\ TechEntry.fresh

CrossesLong == TechEntry.score >= dEnv.tech_long
CrossesShort == TechEntry.score <= dEnv.tech_short

\* The direction the technical vote proposes, read off the inputs.
ProposedSide == IF CrossesLong THEN "LONG" ELSE IF CrossesShort THEN "SHORT" ELSE None

Opposes(v, side) ==
    \/ side = "LONG" /\ v.score < 0
    \/ side = "SHORT" /\ v.score > 0

\* Other fresh agents whose confidence and |score| both exceed the veto minimums
\* and whose score opposes the proposal.
ExceedingOpponents ==
    {dDict[i].name : i \in {j \in Others :
        /\ dDict[j].fresh
        /\ dDict[j].conf > dEnv.veto_conf_min
        /\ Abs(dDict[j].score) > dEnv.veto_score_min
        /\ Opposes(dDict[j], ProposedSide)}}

\* The same with both minimums reached or exceeded.
ReachingOpponents ==
    {dDict[i].name : i \in {j \in Others :
        /\ dDict[j].fresh
        /\ dDict[j].conf >= dEnv.veto_conf_min
        /\ Abs(dDict[j].score) >= dEnv.veto_score_min
        /\ Opposes(dDict[j], ProposedSide)}}

\* C8 as stated: when the technical vote proposes a direction and some other fresh
\* agent exceeds both veto minimums with an opposing score, decide_pair returns
\* HOLD and the reason names exactly the agents that exceed the minimums and oppose.
C8_VetoNamesExceeding ==
    (Decided /\ DriverStage /\ ProposedSide # None /\ ExceedingOpponents # {})
        => /\ dOut.decision = "HOLD"
           /\ dOut.reason = <<"veto by", ExceedingOpponents>>

\* C8 amended: the veto minimums are inclusive.  When the technical vote proposes a
\* direction and some other fresh agent has confidence >= the confidence minimum
\* and |score| >= the score minimum with an opposing score, decide_pair returns
\* HOLD and the reason names exactly those agents.
C8_VetoNamesReaching ==
    (Decided /\ DriverStage /\ ProposedSide # None /\ ReachingOpponents # {})
        => /\ dOut.decision = "HOLD"
           /\ dOut.reason = <<"veto by", ReachingOpponents>>

C8_Witness ==
    /\ Decided /\ DriverStage /\ ProposedSide = "LONG"
    /\ ReachingOpponents = {"news", "sentiment"}
    /\ ExceedingOpponents = {"news"}
    /\ dOut.decision = "HOLD"
    /\ dOut.reason[1] = "veto by"

\* The vote set with entry i given another score and confidence.
WithVote(d, i, s, c) == [d EXCEPT ![i].score = s, ![i].conf = c]

\* The vote set with entry i removed.
WithoutVote(d, i) == [k \in 1..(Len(d) - 1) |-> IF k < i THEN d[k] ELSE d[k + 1]]

StaleOptional == {i \in DOMAIN dDict : ~dDict[i].fresh /\ dDict[i].name \notin CriticalAgents(dEnv)}

SameOutcome(r) == r.S = dOut.S /\ r.decision = dOut.decision

\* C9: a stale vote of a non-critical agent has no influence: giving it any other
\* score or confidence, or removing it, changes neither S nor the decision.
C9_StaleOptionalNoInfluence ==
    Decided =>
        \A i \in StaleOptional :
            /\ \A s \in {-One, -5, 0, 5, One}, c \in {0, 5, One} :
                  SameOutcome(DecideDict(WithVote(dDict, i, s, c), dWeights, dEnv))
            /\ SameOutcome(DecideDict(WithoutVote(dDict, i), dWeights, dEnv))

C9_Witness ==
    /\ Decided /\ dOut.decision = "LONG"
    /\ \E i \in StaleOptional :
          /\ dDict[i].name # "technical"
          /\ dDict[i].score = -One /\ dDict[i].conf = One
          /\ WeightOf(dWeights, dDict[i].name) > 0
    /\ dOut.S # <<0, 1>>

\* C10: LONG is returned only if the technical vote is fresh and its score reaches
\* the long trigger, SHORT only if it reaches the short trigger; a fresh technical
\* vote that crosses neither trigger gives HOLD with reason "no technical edge",
\* whatever the other agents vote.
C10_TechnicalDriver ==
    Decided =>
        /\ dOut.decision = "LONG" => (TechPresent /\ TechEntry.fresh /\ CrossesLong)
        /\ dOut.decision = "SHORT" => (TechPresent /\ TechEntry.fresh /\ CrossesShort)
        /\ (DriverStage /\ ~CrossesLong /\ ~CrossesShort)
              => /\ dOut.decision = "HOLD"
                 /\ dOut.reason = <<"no technical edge", {}>>

C10_Witness ==
    /\ Decided /\ DriverStage /\ ~CrossesLong /\ ~CrossesShort
    /\ TechEntry.score = 5
    /\ \E i \in Others : dDict[i].fresh /\ dDict[i].score = One /\ dDict[i].conf = One
    /\ dOut.reason[1] = "no technical edge"

---------------------------------------------------------------------------
(* Claims about the daily limits *)

\* The limits other than max_trades_per_day permit a trade of 1R on a fresh day.
OtherLimitsPermit ==
    /\ ~(lim.max_risk_per_trade_r > 0 /\ One > lim.max_risk_per_trade_r)
    /\ ~(lim.max_daily_risk_r > 0 /\ One > lim.max_daily_risk_r)

\* C5: with max_trades_per_day = N > 0, a check made after N or more updates on
\* its UTC date is refused, and a check made on a date with no update yet (the
\* first check after the date advanced) is granted, the other limits permitting.
C5_DailyTradeLimit ==
    (lastCheck.done /\ lim.max_trades_per_day > 0) =>
        /\ lastCheck.updates >= lim.max_trades_per_day => ~lastCheck.ok
        /\ (lastCheck.updates = 0 /\ OtherLimitsPermit) => lastCheck.ok

\* A check granted on the day after a day on which the trade limit refused one.
C5_Witness ==
    /\ lastCheck.done /\ lastCheck.ok
    /\ lim.max_trades_per_day > 0
    /\ blockedDay >= 0
    /\ lastCheck.day = blockedDay + 1
    /\ lastCheck.updates = 0

---------------------------------------------------------------------------
(* Claims about the journals *)

IsPrefix(a, b) == Len(a) <= Len(b) /\ SubSeq(b, 1, Len(a)) = a

NoTwoWithSameKey(journal) ==
    \A i, j \in DOMAIN journal :
        MakeKeyPaperClosed(journal[i]) = MakeKeyPaperClosed(journal[j]) => i = j

\* C2: over the run cycles every OPEN paper trade is closed at most once: no two
\* of the CLOSED records ever written carry the identity key of the same OPEN
\* record.
C2_ClosedAtMostOnce == NoTwoWithSameKey(closedEver)

\* C3 as stated: the CLOSED journal never holds two records with the same
\* identity key, whoever calls record_closed_paper_trade and however often.
C3_RecordCloseIdempotent == NoTwoWithSameKey(paperClosed)

\* C3, amended: a run of the closer only appends to the CLOSED journal, and every
\* record it appends has an identity key that no earlier record of the journal
\* has (neither one it read nor one it wrote before in the same run).
C3_CloserSkipsClosedKeys ==
    [][phase' = "closer" =>
        /\ IsPrefix(paperClosed, paperClosed')
        /\ \A i \in (Len(paperClosed) + 1)..Len(paperClosed') :
              \A j \in 1..(i - 1) :
                  MakeKeyPaperClosed(paperClosed'[i]) # MakeKeyPaperClosed(paperClosed'[j])]_vars

\* The closer has met an OPEN record whose key the journal already held, left it
\* alone, and closed another one.
C3_Witness ==
    /\ phase = "closer"
    /\ lastRun.closer.written # <<>>
    /\ \E i \in DOMAIN paperOpen :
          MakeKeyPaperOpen(paperOpen[i]) \in ClosedKeys(lastRun.closer.read)

\* C4: both journals are append-only: every step leaves each journal with its
\* former content as a prefix.
C4_JournalsAppendOnly ==
    [][IsPrefix(paperOpen, paperOpen') /\ IsPrefix(paperClosed, paperClosed')]_vars

---------------------------------------------------------------------------
(* Claims about the risk gate of run_once *)

Signals == {lastRun.signals[i] : i \in DOMAIN lastRun.signals}

Refused(ev) == ev.checked /\ ~ev.ok

\* A step that is one run of run_once.
RunStep == phase = "due" /\ phase' = "ran"

\* check_trading_limits refuses on the state file as the run finds it (and so
\* for every signal of the run, the counters only growing within a day).
RefusedBefore ==
    ~CheckTradingLimits(tradingState, day, cfg.limits.max_trades_per_day,
                        cfg.limits.max_daily_risk_r, cfg.limits.max_risk_per_trade_r, One).ok

NoOrderNoDryRun(ev) == ~ev.dry_run /\ ~ev.order

\* C6 as stated: a run opens no trade for a signal whose limits check was
\* refused: no OPEN record is appended to the paper journal, the live dry-run log
\* is not called and no order is sent.
C6_RefusedOpensNothing ==
    [][RunStep =>
        /\ \A i \in DOMAIN lastRun'.signals :
              Refused(lastRun'.signals[i]) =>
                  ~lastRun'.signals[i].paper /\ NoOrderNoDryRun(lastRun'.signals[i])
        /\ RefusedBefore => paperOpen' = paperOpen /\ orders' = orders]_vars

\* C6, amended: for a signal whose limits check was refused the run sends no
\* order and does not call the live dry-run log (the paper journal is not
\* covered: paper trades are opened regardless of the check).
C6_RefusedSendsNoOrder ==
    [][RunStep =>
        /\ \A i \in DOMAIN lastRun'.signals :
              Refused(lastRun'.signals[i]) => NoOrderNoDryRun(lastRun'.signals[i])
        /\ RefusedBefore => orders' = orders]_vars

\* A refused signal in a testnet environment that would otherwise have sent an order.
C6_Witness ==
    /\ cfg.environment = "testnet" /\ ~cfg.hard_stop
    /\ \E ev \in Signals : Refused(ev) /\ ev.paper /\ ~ev.order

OrdersOn(d) == Cardinality({i \in DOMAIN orders : orders[i].day = d})

---------------------------------------------------------------------------
(* Claims about a missing technical vote and about the fused score *)

\* C11 as stated: without a technical vote (the empty vote set included) the
\* result is HOLD with the reason "no technical signal".
C11_NoTechnicalSignal ==
    (Decided /\ ~TechPresent) =>
        dOut.decision = "HOLD" /\ dOut.reason = <<"no technical signal", {}>>

\* C11, amended: without a technical vote the result is HOLD, and the reason is
\* "no votes" for the empty vote set, "critical stale: <names>" when a critical
\* agent other than technical is stale, and "no technical agent" otherwise.
C11_NoTechnicalAgent ==
    (Decided /\ ~TechPresent) =>
        /\ dOut.decision = "HOLD"
        /\ dOut.reason =
              IF dDict = <<>> THEN <<"no votes", {}>>
              ELSE LET stale == {n \in CriticalAgents(dEnv) :
                                    \E i \in DOMAIN dDict : dDict[i].name = n /\ ~dDict[i].fresh}
                   IN  IF stale # {} THEN <<"critical stale", stale>>
                       ELSE <<"no technical agent", {}>>

\* All three reasons occur; this one is the case of a stale critical news vote.
C11_Witness ==
    /\ Decided /\ ~TechPresent
    /\ dDict # <<>>
    /\ dOut.reason = <<"critical stale", {"news"}>>

\* C12: on every return path the fused score S lies in [-1, 1].
C12_ScoreInRange ==
    Decided => /\ dOut.S[2] > 0
               /\ (-One) * dOut.S[2] <= dOut.S[1]
               /\ dOut.S[1] <= One * dOut.S[2]

\* The weighted average lies outside [-1, 1] and S is the clamped value.
C12_Witness ==
    /\ Decided
    /\ TotalWeight(dDict, dWeights) > 0
    /\ WeightedSum(dDict, dWeights) > One * TotalWeight(dDict, dWeights)
    /\ dOut.S = <<One, 1>>

\* The votes that enter the average: fresh, with a confidence above 0.
Fused == {i \in DOMAIN dDict : dDict[i].fresh /\ dDict[i].conf > 0}

RECURSIVE SumOf(_)
SumOf(f) ==
    IF DOMAIN f = {} THEN 0
    ELSE LET i == CHOOSE j \in DOMAIN f : TRUE
         IN  f[i] + SumOf([j \in DOMAIN f \ {i} |-> f[j]])

WeightNamed(name) == IF name \in DOMAIN dWeights THEN dWeights[name] ELSE 0
Numerator == SumOf([i \in Fused |-> dDict[i].score * WeightNamed(dDict[i].name) * dDict[i].conf])
Denominator == SumOf([i \in Fused |-> WeightNamed(dDict[i].name) * dDict[i].conf])

\* C13: on every return path S is the confidence- and weight-weighted average of
\* the fresh votes with positive confidence, clamped to [-1, 1], and 0 when the
\* denominator is not positive; S does not depend on the decision returned.
C13_ScoreIsClampedAverage ==
    Decided =>
        IF Denominator <= 0 THEN dOut.S = <<0, 1>>
        ELSE IF Numerator >= One * Denominator THEN dOut.S = <<One, 1>>
        ELSE IF Numerator <= (-One) * Denominator THEN dOut.S = <<-One, 1>>
        ELSE /\ dOut.S[2] > 0
             /\ dOut.S[1] * Denominator = Numerator * dOut.S[2]
             /\ dOut.S = Frac(dOut.S[1], dOut.S[2])

\* A vetoed HOLD whose S is a proper average of three votes with unequal
\* confidences.
C13_Witness ==
    /\ Decided
    /\ dOut.decision = "HOLD"
    /\ dOut.reason[1] = "veto by"
    /\ Cardinality(Fused) = 3
    /\ \E i, j \in Fused : dDict[i].conf # dDict[j].conf
    /\ dOut.S[2] > 1

\* The votes of the list that were cast for the requested pair.
VotesFor(votes, pair) == SelectSeq(votes, LAMBDA v : v.pair = pair)

\* C14: decide_pair fuses only the votes cast for the requested pair: the votes
\* for other pairs in the list change neither S nor the decision.
C14_OnlyRequestedPair ==
    Decided =>
        LET own == DecidePair(dPair, VotesFor(dVotes, dPair), dWeights, DefaultThresholds, dEnv)
        IN  dOut.S = own.S /\ dOut.decision = own.decision

---------------------------------------------------------------------------
(* Claims about repeated calls of decide_pair *)

SameArguments(a, b) ==
    /\ a.pair = b.pair /\ a.votes = b.votes
    /\ a.weights = b.weights /\ a.thresholds = b.thresholds

---------------------------------------------------------------------------
(* Claims about simulate_backtest *)

\* The trades of all the results returned so far.
ReturnedTrades == UNION {{r.trades[i] : i \in DOMAIN r.trades} : r \in {btRuns[k] : k \in DOMAIN btRuns}}

\* The candle that enumerate numbers idx.
CandleAt(idx) == btCandles[idx + 1]

CrossesStop(t, candle) ==
    IF t.side = "LONG" THEN candle.low <= t.stop_loss ELSE candle.h >= t.stop_loss

CrossesTarget(t, candle) ==
    IF t.side = "LONG" THEN candle.h >= t.take_profit ELSE candle.low <= t.take_profit

\* C16: when a candle after the entry crosses both the stop-loss and the
\* take-profit of the open position, the trade closes on it as a stop-loss:
\* exit = stop_loss and pnl_r = -1.0.
C16_BothCrossedIsStopLoss ==
    \A t \in ReturnedTrades : \A idx \in (t.entry_idx + 1)..t.exit_idx :
        (CrossesStop(t, CandleAt(idx)) /\ CrossesTarget(t, CandleAt(idx)))
            => /\ idx = t.exit_idx
               /\ t.exit = t.stop_loss
               /\ t.pnl_r = -One

\* C17: while a position is open every candle after the entry candle is tested
\* against stop-loss and take-profit, so the trade closes on the first candle
\* that crosses one of them: no candle between entry and exit crosses a level.
C17_ClosesOnFirstCrossing ==
    \A t \in ReturnedTrades : \A idx \in (t.entry_idx + 1)..(t.exit_idx - 1) :
        ~CrossesStop(t, CandleAt(idx)) /\ ~CrossesTarget(t, CandleAt(idx))

\* C18: two calls of simulate_backtest on the same candles with the same
\* parameters return the same trades and the same aggregates.
C18_SameCandlesSameResult ==
    \A i, j \in DOMAIN btRuns : btRuns[i] = btRuns[j]

\* C19: every returned trade has pnl_r = +rr if it exited at its take-profit and
\* pnl_r = -1.0 if it exited at its stop-loss, and it exited at one of the two.
C19_PnlIsRrOrMinusOne ==
    \A t \in ReturnedTrades :
        /\ t.exit \in {t.take_profit, t.stop_loss}
        /\ t.exit = t.take_profit => t.pnl_r = btParams.rr
        /\ t.exit = t.stop_loss => t.pnl_r = -One
        /\ t.pnl_r \in {btParams.rr, -One}

\* One result holds a trade closed at its take-profit and one at its stop-loss.
C19_Witness ==
    \E k \in DOMAIN btRuns : \E i, j \in DOMAIN btRuns[k].trades :
        /\ btRuns[k].trades[i].exit = btRuns[k].trades[i].take_profit
        /\ btRuns[k].trades[j].exit = btRuns[k].trades[j].stop_loss

WonIn(r) == {i \in DOMAIN r.trades : r.trades[i].pnl_r > 0}
LostIn(r) == {i \in DOMAIN r.trades : r.trades[i].pnl_r < 0}
PnlOver(r, I) == SumOf([i \in I |-> r.trades[i].pnl_r])

\* q is the fraction num / den in lowest terms (den > 0).
IsRatio(q, num, den) ==
    /\ q[2] > 0
    /\ q[1] * den = num * q[2]
    /\ \A g \in 2..q[2] : ~(q[1] % g = 0 /\ q[2] % g = 0)

\* C20: in every result wins counts the trades with pnl_r > 0 and losses those
\* with pnl_r < 0; winrate = wins / n, profit factor = gross profit / gross loss
\* (None when no trade lost) and expectancy = sum of pnl_r / n; the three are
\* None when no trade was closed.
C20_Aggregates ==
    \A k \in DOMAIN btRuns :
        LET r == btRuns[k]
            n == Len(r.trades)
        IN  /\ r.n_trades = n
            /\ r.wins = Cardinality(WonIn(r))
            /\ r.losses = Cardinality(LostIn(r))
            /\ IF n = 0
               THEN r.winrate = <<>> /\ r.pf = <<>> /\ r.expectancy = <<>>
               ELSE /\ Len(r.winrate) = 1 /\ IsRatio(r.winrate[1], r.wins, n)
                    /\ Len(r.expectancy) = 1
                    /\ IsRatio(r.expectancy[1], PnlOver(r, DOMAIN r.trades), n)
                    /\ IF LostIn(r) = {} THEN r.pf = <<>>
                       ELSE /\ Len(r.pf) = 1
                            /\ IsRatio(r.pf[1], PnlOver(r, WonIn(r)), -PnlOver(r, LostIn(r)))

\* A result with a winning and a losing trade, so that all three ratios exist.
C20_Witness ==
    \E k \in DOMAIN btRuns :
        /\ btRuns[k].wins = 1 /\ btRuns[k].losses = 1
        /\ btRuns[k].pf # <<>>
        /\ btRuns[k].winrate = <<(<<1, 2>>)>>

---------------------------------------------------------------------------
(* Claims about collect_votes *)

\* The pairs whose run of the technical agent returned a vote.
Voting == {k \in DOMAIN Universe : cvIn[Universe[k]].rows /\ ~cvIn[Universe[k]].vote.absent}

---------------------------------------------------------------------------
(* Claims about a damaged daily state *)

\* C22: on a state file that is missing, no valid JSON, or JSON that is no
\* well-formed state object, check_trading_limits and
\* update_trading_state_after_trade do not raise and act as on the state
\* {today, 0 trades, 0.0 risk}: every update counts one trade from there, and
\* every check answers as for the trades counted so far.
C22_DamagedStateIsEmptyState ==
    /\ updatesToday > 0 =>
          tradingState = StateFile(day, updatesToday, updatesToday * One)
    /\ lastCheck.done =>
          LET asif == StateFile(lastCheck.day, lastCheck.updates, lastCheck.updates * One)
              r == CheckTradingLimits(asif, lastCheck.day, lim.max_trades_per_day,
                                      lim.max_daily_risk_r, lim.max_risk_per_trade_r, One)
          IN  /\ lastCheck.reason # "raised"
              /\ lastCheck.ok = r.ok /\ lastCheck.reason = r.reason

---------------------------------------------------------------------------
(* Claims about the order levels and the R multiple *)

\* The risk distance price * d and the reward distance price * d * rr, each
\* compared with one unit of the sixth decimal.
RiskAtLeastOneUnit == olIn.price >= 1000 \/ olIn.price * olIn.sl_distance >= 1000
RewardAtLeastOneUnit ==
    olIn.price >= 10000 \/ olIn.price * olIn.sl_distance * olIn.rr >= 10000

\* x * m - price * k, the distance of x from price * k / m in m-ths of a unit.
Off(x, price, k, m) == (x - (price \div m) * k) * m - (price % m) * k

\* x is price * k / m rounded to the nearest unit.
IsRounded(x, price, k, m) == 2 * Abs(Off(x, price, k, m)) <= m

Sign == IF olIn.side = "LONG" THEN 1 ELSE -1

Recorded == paperClosed # <<>> /\ pnlIn # <<>>
ClosedRec == paperClosed[1]
RiskDistance == IF pnlIn.side = "LONG" THEN pnlIn.entry - pnlIn.stop_loss ELSE pnlIn.stop_loss - pnlIn.entry
Gain == IF pnlIn.side = "LONG" THEN pnlIn.exit_price - pnlIn.entry ELSE pnlIn.entry - pnlIn.exit_price

\* q is the fraction num / den (den > 0) in tenths.
IsTenths(q, num, den) == q[2] > 0 /\ q[1] * den = num * One * q[2]

\* C24 as stated: pnl_r = (exit - entry) / (entry - stop) for LONG and
\* (entry - exit) / (stop - entry) for SHORT, and a trade with the levels of
\* compute_order_levels gets pnl_r = rr at its take-profit and -1 at its stop.
C24_PnlIsRrOrMinusOneAtLevels ==
    Recorded =>
        /\ RiskDistance > 0 => IsTenths(ClosedRec.pnl_r, Gain, RiskDistance)
        /\ pnlIn.outcome = "TP" => ClosedRec.pnl_r = <<pnlIn.levels[1].rr, 1>>
        /\ pnlIn.outcome = "SL" => ClosedRec.pnl_r = <<-One, 1>>

\* The levels were computed without rounding: price * d and price * d * rr are
\* whole numbers of the sixth decimal.
ExactLevels ==
    /\ pnlIn.levels # <<>>
    /\ (pnlIn.levels[1].price % 1000) * pnlIn.levels[1].sl_distance % 1000 = 0
    /\ (pnlIn.levels[1].price % 10000) * pnlIn.levels[1].sl_distance * pnlIn.levels[1].rr % 10000 = 0

\* C24, amended: pnl_r is that quotient of the levels as recorded; at the stop
\* it is -1 whenever stop and entry differ; at the take-profit it is rr when
\* compute_order_levels had nothing to round, and the quotient of the rounded
\* distances otherwise (LONG entry 100, stop 99, exit 101.5 gives 1.5).
C24_PnlIsQuotientOfRecordedLevels ==
    Recorded =>
        /\ RiskDistance > 0 => IsTenths(ClosedRec.pnl_r, Gain, RiskDistance)
        /\ (pnlIn.outcome = "SL" /\ RiskDistance > 0) => ClosedRec.pnl_r = <<-One, 1>>
        /\ (pnlIn.outcome = "TP" /\ ExactLevels) => ClosedRec.pnl_r = <<pnlIn.levels[1].rr, 1>>
        /\ (pnlIn.side = "LONG" /\ pnlIn.entry = 100000000 /\ pnlIn.stop_loss = 99000000
              /\ pnlIn.exit_price = 101500000) => ClosedRec.pnl_r = <<15, 1>>

\* A take-profit of rounded levels: 0.0026 with 0.2 % and rr 1.5 pays 8 / 5.
C24_Witness ==
    /\ Recorded
    /\ pnlIn.outcome = "TP" /\ ~ExactLevels
    /\ pnlIn.side = "LONG" /\ pnlIn.entry = 2600 /\ pnlIn.levels[1].rr = 15
    /\ ClosedRec.pnl_r = <<16, 1>>

\* C25: with a risk distance <= 0 (LONG with stop >= entry, SHORT with
\* stop <= entry) the record gets pnl_r = 0.0 whatever the exit price, and the
\* call does not raise.
C25_NoRiskNoPnl ==
    (Recorded /\ RiskDistance <= 0) =>
        /\ ClosedRec.pnl_r = <<0, 1>>
        /\ ClosedRec.exit = pnlIn.exit_price
        /\ ClosedRec.status = "CLOSED"

\* A LONG whose stop lies above the entry, closed away from the entry.
C25_Witness ==
    /\ Recorded
    /\ pnlIn.side = "LONG" /\ pnlIn.stop_loss > pnlIn.entry
    /\ pnlIn.exit_price # pnlIn.entry
    /\ ClosedRec.pnl_r = <<0, 1>>

---------------------------------------------------------------------------
(* C26: updates made only after an allowing check *)

\* The state file holds the counters of a day of the run.
PersistedDay == tradingState.kind = "state" /\ tradingState.date >= 0

\* C26: when update_trading_state_after_trade is called only directly after a
\* check_trading_limits that returned True, the persisted state of a day never
\* holds more trades than max_trades_per_day nor more risk than
\* max_daily_risk_r, for each of the two limits that is above 0.
C26_CheckedUpdatesStayWithinLimits ==
    PersistedDay =>
        /\ lim.max_trades_per_day > 0 => tradingState.n_trades <= lim.max_trades_per_day
        /\ lim.max_daily_risk_r > 0 => tradingState.risk_used_r <= lim.max_daily_risk_r

\* Two trades of one day were counted, the limit of 2 is reached and the next
\* check refuses.
C26_Witness ==
    /\ lim.max_trades_per_day = 2
    /\ lim.max_daily_risk_r = 2 * One
    /\ tradingState = StateFile(day, 2, 2 * One)
    /\ updatesToday >= 1
    /\ lastCheck.done
    /\ ~lastCheck.ok
    /\ lastCheck.day = day

---------------------------------------------------------------------------
(* C27: the CLOSED record keeps the identity key of its OPEN record *)

\* The OPEN records that the last closer run closed with the CLOSED record w.
ClosedBy(w) ==
    {j \in DOMAIN paperOpen :
        /\ MakeKeyPaperOpen(paperOpen[j]) = MakeKeyPaperClosed(w)
        /\ MakeKeyPaperOpen(paperOpen[j]) \notin ClosedKeys(lastRun.closer.read)}

\* C27: every CLOSED record a closer run writes has the identity key of an OPEN
\* record that was a candidate of that run, and while the record is in the
\* closed journal that OPEN record is no candidate of a later run.
C27_ClosedKeyIsOpenKey ==
    \A i \in DOMAIN lastRun.closer.written :
        LET w == lastRun.closer.written[i]
        IN  /\ ClosedBy(w) # {}
            /\ \A j \in ClosedBy(w) :
                 \A k \in DOMAIN Candidates(paperOpen, paperClosed) :
                    Candidates(paperOpen, paperClosed)[k] # paperOpen[j]

\* A closer run closed a trade that was opened before the last candle began,
\* and a second trade is still a candidate.
C27_Witness ==
    /\ Len(lastRun.closer.written) = 1
    /\ lastRun.closer.written[1].open_time < lastRun.closer.written[1].exit_time
    /\ Len(paperOpen) = 2
    /\ Len(Candidates(paperOpen, paperClosed)) = 1

---------------------------------------------------------------------------
(* C28: the closer and the backtest on the same trade and candles *)

\* A backtest candle as the kline the closer reads (k[2] high, k[3] low).
KlineOf(candle) == [t |-> candle.t, high |-> candle.h, low |-> candle.low]

\* The candles after the entry candle of the trade t.
KlinesAfterEntry(t) ==
    [k \in 1..(Len(btCandles) - t.entry_idx - 1) |-> KlineOf(btCandles[t.entry_idx + 1 + k])]

\* The outcome simulate_backtest gave the trade.
BacktestOutcome(t) == IF t.exit = t.stop_loss THEN "SL" ELSE "TP"

\* C28: for every trade the backtest returns, _simulate_over_klines on the
\* trade's side, stop-loss and take-profit and the candles after its entry
\* returns the outcome the backtest gave it.
C28_CloserResolvesAsBacktest ==
    \A t \in ReturnedTrades :
        SimulateOverKlines(t.side, t.stop_loss, t.take_profit, KlinesAfterEntry(t)) = BacktestOutcome(t)

---------------------------------------------------------------------------
(* C29: the backtest holds one position at a time *)

\* The signals run_once returns for the candles under the agent inputs inp.
SignalsOf(inp) == [k \in DOMAIN btCandles |-> RunOnceResult(Universe[1], inp[k], DefaultWeights)]

\* The loop variables of simulate_backtest after the last candle.
LoopEnd(inp) ==
    BacktestLoop([open |-> <<>>, trades |-> <<>>], Universe[1], btCandles, SignalsOf(inp), btParams, 1)

\* The agent inputs under which simulate_backtest returns what the first call returned.
InputsOfFirstRun ==
    {inp \in [DOMAIN btCandles -> BtInputs] :
        SimulateBacktest(Universe[1], btCandles, SignalsOf(inp), btParams) = btRuns[1]}

TradesInOrder(trades) ==
    /\ \A i \in DOMAIN trades : trades[i].entry_idx < trades[i].exit_idx
    /\ \A i \in 1..(Len(trades) - 1) : trades[i].exit_idx < trades[i + 1].entry_idx

\* C29: in every returned trade list a trade is entered before it is exited and
\* exited before the next is entered, n_trades is the length of the list, and a
\* position still open after the last candle is none of the listed trades.
C29_OnePositionAtATime ==
    /\ \A k \in DOMAIN btRuns :
          /\ TradesInOrder(btRuns[k].trades)
          /\ btRuns[k].n_trades = Len(btRuns[k].trades)
    /\ Len(btRuns) = 1 =>
          \A inp \in InputsOfFirstRun :
              LoopEnd(inp).open # <<>> =>
                  /\ btRuns[1].n_trades = Len(LoopEnd(inp).trades)
                  /\ \A i \in DOMAIN btRuns[1].trades :
                        btRuns[1].trades[i].exit_idx < LoopEnd(inp).open[1].entry_idx

\* One trade was closed, a second position was opened after it and is still
\* open after the last candle; the call returned one trade.
C29_Witness ==
    /\ Len(btRuns) = 1
    /\ btRuns[1].n_trades = 1
    /\ \E inp \in InputsOfFirstRun :
          /\ LoopEnd(inp).open # <<>>
          /\ LoopEnd(inp).open[1].entry_idx > btRuns[1].trades[1].exit_idx

---------------------------------------------------------------------------
(* C30: the direction and the sign of the fused score *)

\* C30 as stated: a LONG comes with S >= 0 and a SHORT with S <= 0.
C30_DecisionAgreesWithScore ==
    Decided =>
        /\ dOut.decision = "LONG" => dOut.S[1] >= 0
        /\ dOut.decision = "SHORT" => dOut.S[1] <= 0

\* No vote but the technical one enters the fused score.
OnlyTechnicalFused == \A i \in Fused : dDict[i].name = "technical"

\* The driver thresholds lie on their own sides of zero.
DriverThresholdsSigned == dEnv.tech_long >= 0 /\ dEnv.tech_short <= 0

\* C30, amended: the direction is taken from the technical score alone, so a
\* LONG comes with S >= 0 and a SHORT with S <= 0 when the technical vote is the
\* only vote fused and the driver thresholds are not on the wrong side of zero.
C30_AgreesWhenTechnicalAlone ==
    (Decided /\ OnlyTechnicalFused /\ DriverThresholdsSigned) =>
        /\ dOut.decision = "LONG" => dOut.S[1] >= 0
        /\ dOut.decision = "SHORT" => dOut.S[1] <= 0

\* A SHORT on the technical vote alone, another vote being present that is not
\* fused; the score is negative and passes the score gate.
C30_Witness ==
    /\ Decided /\ OnlyTechnicalFused /\ DriverThresholdsSigned
    /\ Others # {}
    /\ dOut.decision = "SHORT"
    /\ dOut.S[1] < 0
    /\ ScoreAbsReaches(dOut.S, FinalScoreMin)

====
